---- MODULE Spec2Model ----
(***************************************************************************)
(* Model of script.py: get_twap_last_5_business_days (the OHLCV pagination *)
(* loop, the date filter and the mean of the typical price) and the button *)
(* branch of main (the loop over the selected tokens and the summary).     *)
(*                                                                         *)
(* Time is counted in model milliseconds; one day has DayMs of them.       *)
(* A price average is kept as an exact fraction <<numerator, denominator>>.*)
(***************************************************************************)
EXTENDS Integers, Sequences, FiniteSets, TLC

VARIABLES
    selected_tokens,   \* main: the multiselect's value, in selection order
    days_to_fetch,     \* main: the slider's value
    market,            \* upstream: token -> timestamps of the candles it holds
    utcoffset,         \* the host's local UTC offset, in model milliseconds
    clock,             \* the UTC wall clock, in model milliseconds
    pc,                \* position of the single thread of control
    idx,               \* main: position of the for loop in selected_tokens
    symbol,            \* get_twap: the symbol parameter
    since,             \* get_twap: the pagination cursor
    now_ms,            \* get_twap: end of the requested range
    ohlcv,             \* get_twap: the accumulated candle list
    cutoff,            \* get_twap: five_business_days_ago.date(), as a day number
    ret,               \* the value the last call returned: [twap, df]
    results,           \* main: the summary rows
    warnings,          \* main: tokens st.warning was shown for
    table,             \* main: TRUE once the summary table is written
    batch,             \* get_twap: the page the last request answered with
    outcomes,          \* history: "twap" or "none" for each finished call
    requests,          \* history: the number of requests of the current call
    failed             \* history: TRUE once a fetch_ohlcv request has raised

vars == <<selected_tokens, days_to_fetch, market, utcoffset, clock, pc, idx,
          symbol, since, now_ms, ohlcv, cutoff, ret, results, warnings, table,
          batch, outcomes, requests, failed>>

----------------------------------------------------------------------------
(* Bounds of the model *)

MaxDays == 1        \* largest slider value explored
MaxCandles == 3     \* most candles the upstream holds, over all tokens
MaxDrift == 1       \* most the clock advances during one call

(* Model milliseconds per day: the unit of timedelta(days=...) and of .date() *)
DayMs == 2

(* Program constants *)

limit == 1000

token_options == <<"MIDLE/USDT", "RIVAL/USDT", "FARTBOY/USDT", "ASV/USDT",
                   "SUPR/USDT", "NTX/USDT">>

None == <<>>

----------------------------------------------------------------------------
(* Helpers *)

Range(s) == {s[k] : k \in 1..Len(s)}

Min(a, b) == IF a <= b THEN a ELSE b

Last(s) == s[Len(s)]

RECURSIVE SumSeq(_)
SumSeq(s) == IF s = <<>> THEN 0 ELSE Head(s) + SumSeq(Tail(s))

TokenNo(t) == CHOOSE k \in 1..Len(token_options) : token_options[k] = t

(* The tokens the model selects from, the host zones and the timestamps
   candles may have. *)
Tokens == {token_options[3], token_options[4]}

UtcOffsets == {0, 1}

MaxTs == (MaxDays + 1) * DayMs

Timestamps == 0..MaxTs

(* Sequences over S without repetition. *)
Selections(S) ==
    {s \in UNION {[1..n -> S] : n \in 0..Cardinality(S)} :
        \A j, k \in 1..Len(s) : j # k => s[j] # s[k]}

----------------------------------------------------------------------------
(* The upstream market-data API *)

(* The candle the upstream holds for token t at timestamp ts:
   [timestamp, open, high, low, close, volume], as ccxt returns it. *)
Quote(t, ts) ==
    LET base == 10 * TokenNo(t)
    IN  [timestamp |-> ts,
         open      |-> base + (ts % 2),
         high      |-> base + ts + 1,
         low       |-> base - (ts % 3),
         close     |-> base + (ts % 4),
         volume    |-> 1 + ((ts * ts) % 5)]

Candles(t) == {Quote(t, ts) : ts \in market[t]}

(* The timestamps an upstream serves from a cursor, ascending. *)
RECURSIVE Ascending(_)
Ascending(S) ==
    IF S = {} THEN <<>>
    ELSE LET m == CHOOSE x \in S : \A y \in S : x <= y
         IN  <<m>> \o Ascending(S \ {m})

(* fetch_ohlcv(symbol, timeframe, since, limit) answering with n candles:
   the first n candles at or after the cursor, in ascending order. *)
fetch_ohlcv(t, cursor, n) ==
    LET from == Ascending({ts \in market[t] : ts >= cursor})
    IN  [k \in 1..n |-> Quote(t, from[k])]

(* How many candles an answer may hold: none when none remain, else at
   least one and at most the requested limit. *)
PageSizes(t, cursor, lim) ==
    LET left == Cardinality({ts \in market[t] : ts >= cursor})
    IN  IF left = 0 THEN {0} ELSE 1..Min(lim, left)

----------------------------------------------------------------------------
(* get_twap_last_5_business_days *)

(* int(dt.timestamp() * 1000) of a naive UTC datetime: timestamp() reads a
   naive datetime as local time. *)
ToMs(utc) == utc - utcoffset

(* pd.to_datetime(ts, unit="ms").date(), as a day number *)
Date(ts) == ts \div DayMs

(* Variant: the cursor is left on the last candle received. *)
NextCursorStalls(last_timestamp) == last_timestamp

NextCursor(last_timestamp) == last_timestamp + 1

(* Variant: the loop also stops on a candle exactly at end_ms. *)
PastEndInclusive(last_timestamp, end_ms) == last_timestamp >= end_ms

PastEnd(last_timestamp, end_ms) == last_timestamp > end_ms

(* Variant: the page replaces the list instead of extending it. *)
ExtendReplaces(list, page) == page

Extend(list, page) == list \o page

(* Variant: the list outlives the call, as a shared default would. *)
FreshListShared(old) == old

FreshList(old) == <<>>

(* Variant: the cutoff day itself is excluded. *)
InWindowStrict(c, day) == Date(c.timestamp) > day

InWindow(c, day) == Date(c.timestamp) >= day

Filter(list, day) == SelectSeq(list, LAMBDA c : InWindow(c, day))

(* Three times the typical price (high + low + close) / 3 *)
TypicalPrice3(c) == c.high + c.low + c.close

(* Variant: the mean is weighted by volume. *)
MeanVolumeWeighted(df) ==
    <<SumSeq([k \in 1..Len(df) |-> TypicalPrice3(df[k]) * df[k].volume]),
      3 * SumSeq([k \in 1..Len(df) |-> df[k].volume])>>

(* The mean of the typical prices, as a fraction *)
Mean(df) ==
    <<SumSeq([k \in 1..Len(df) |-> TypicalPrice3(df[k])]), 3 * Len(df)>>

IsEmpty(df) == Len(df) = 0

(* Variant: the request is tried again. *)
OnFetchErrorRetry == "fetch"

(* Where control goes when fetch_ohlcv raises inside the loop *)
OnFetchError == "unwind"

(* Variant: main catches the error and reports the token as without data. *)
OnCallErrorCaught == "returned"

(* Where control goes when the call raises inside main's for loop *)
OnCallError == "crashed"

----------------------------------------------------------------------------
Init ==
    /\ selected_tokens \in Selections(Tokens)
    /\ days_to_fetch \in 1..MaxDays
    /\ market \in [Tokens -> SUBSET Timestamps]
    /\ \A t \in Tokens \ Range(selected_tokens) : market[t] = {}
    /\ SumSeq([k \in 1..Len(selected_tokens) |->
                 Cardinality(market[selected_tokens[k]])]) <= MaxCandles
    /\ utcoffset \in UtcOffsets
    /\ clock \in (MaxDays * DayMs)..(MaxDays * DayMs + DayMs - 1)
    /\ pc = "button"
    /\ idx = 0
    /\ symbol = ""
    /\ since = 0
    /\ now_ms = 0
    /\ ohlcv = <<>>
    /\ cutoff = 0
    /\ ret = [twap |-> None, df |-> None]
    /\ results = <<>>
    /\ warnings = <<>>
    /\ table = FALSE
    /\ outcomes = <<>>
    /\ batch = <<>>
    /\ requests = 0
    /\ failed = FALSE

(* main, lines 96-99: the button is clicked *)
ClickFetch ==
    /\ pc = "button"
    /\ results' = <<>>
    /\ idx' = 1
    /\ pc' = "for"
    /\ UNCHANGED <<selected_tokens, days_to_fetch, market, utcoffset, clock,
                   symbol, since, now_ms, ohlcv, cutoff, ret, warnings, table,
                   batch, outcomes, requests, failed>>

(* main, lines 100-101 and get_twap, lines 16-27: the next token's call *)
CallTwap ==
    /\ pc = "for"
    /\ idx <= Len(selected_tokens)
    /\ now_ms' = ToMs(clock)
    /\ since' = ToMs(clock - days_to_fetch * DayMs)
    /\ symbol' = selected_tokens[idx]
    /\ ohlcv' = FreshList(ohlcv)
    /\ ret' = [twap |-> None, df |-> None]
    /\ cutoff' = 0
    /\ batch' = <<>>
    /\ requests' = 0
    /\ pc' = "fetch"
    /\ UNCHANGED <<selected_tokens, days_to_fetch, market, utcoffset, clock,
                   idx, results, warnings, table, outcomes, failed>>

(* get_twap, line 32: the request raises *)
FetchFails ==
    /\ pc = "fetch"
    /\ requests' = requests + 1
    /\ failed' = TRUE
    /\ pc' = OnFetchError
    /\ UNCHANGED <<selected_tokens, days_to_fetch, market, utcoffset, clock,
                   idx, symbol, since, now_ms, ohlcv, cutoff, ret, results,
                   warnings, table, batch, outcomes>>

(* get_twap, lines 32-46: one turn of the pagination loop *)
FetchPage ==
    /\ pc = "fetch"
    /\ requests' = requests + 1
    /\ \E n \in PageSizes(symbol, since, limit) :
        LET last_timestamp == Last(batch').timestamp
        IN  /\ batch' = fetch_ohlcv(symbol, since, n)
            /\ IF batch' = <<>>
               THEN /\ pc' = "filter"
                    /\ UNCHANGED <<ohlcv, since>>
               ELSE /\ ohlcv' = Extend(ohlcv, batch')
                    /\ since' = NextCursor(last_timestamp)
                    /\ pc' = IF PastEnd(last_timestamp, now_ms)
                             THEN "filter" ELSE "fetch"
    /\ UNCHANGED <<selected_tokens, days_to_fetch, market, utcoffset, clock,
                   idx, symbol, now_ms, cutoff, ret, results, warnings, table,
                   outcomes, failed>>

(* get_twap, lines 49-66: the date filter, the mean and the return *)
FilterAndMean ==
    /\ pc = "filter"
    /\ \E d \in 0..MaxDrift :
        /\ clock' = clock + d
        /\ cutoff' = Date(clock') - days_to_fetch
    /\ LET df == Filter(ohlcv, cutoff')
       IN  ret' = IF IsEmpty(df)
                  THEN [twap |-> None, df |-> None]
                  ELSE [twap |-> Mean(df), df |-> df]
    /\ pc' = "returned"
    /\ UNCHANGED <<selected_tokens, days_to_fetch, market, utcoffset, idx,
                   symbol, since, now_ms, ohlcv, results, warnings, table,
                   batch, outcomes, requests, failed>>

(* Variant: a row is added whatever the call returned. *)
HasDataAlways(r) == TRUE

HasData(r) == r.twap # None /\ r.df # None

(* main, lines 102-113: a row or a warning for the token *)
Report ==
    /\ pc = "returned"
    /\ IF HasData(ret)
       THEN /\ results' = Append(results, [Symbol |-> symbol, TWAP |-> ret.twap])
            /\ outcomes' = Append(outcomes, "twap")
            /\ UNCHANGED warnings
       ELSE /\ warnings' = Append(warnings, symbol)
            /\ outcomes' = Append(outcomes, "none")
            /\ UNCHANGED results
    /\ idx' = idx + 1
    /\ pc' = "for"
    /\ UNCHANGED <<selected_tokens, days_to_fetch, market, utcoffset, clock,
                   symbol, since, now_ms, ohlcv, cutoff, ret, table, batch,
                   requests, failed>>

(* main, lines 115-119: the summary table *)
Summary ==
    /\ pc = "for"
    /\ idx > Len(selected_tokens)
    /\ table' = (results # <<>>)
    /\ pc' = "done"
    /\ UNCHANGED <<selected_tokens, days_to_fetch, market, utcoffset, clock,
                   idx, symbol, since, now_ms, ohlcv, cutoff, ret, results,
                   warnings, batch, outcomes, requests, failed>>

(* main, lines 100-101: the exception leaves get_twap and reaches main *)
Unwind ==
    /\ pc = "unwind"
    /\ pc' = OnCallError
    /\ UNCHANGED <<selected_tokens, days_to_fetch, market, utcoffset, clock,
                   idx, symbol, since, now_ms, ohlcv, cutoff, ret, results,
                   warnings, table, batch, outcomes, requests, failed>>

Next ==
    \/ ClickFetch
    \/ CallTwap
    \/ FetchFails
    \/ FetchPage
    \/ FilterAndMean
    \/ Report
    \/ Summary
    \/ Unwind

Spec == Init /\ [][Next]_vars

(* The loop runs in one thread with blocking calls that return or raise:
   control always takes its next step. *)
FairSpec == Spec /\ WF_vars(Next)

----------------------------------------------------------------------------
(* Properties *)

Stamps(list) == {list[k].timestamp : k \in 1..Len(list)}

WindowStart == now_ms - days_to_fetch * DayMs

RECURSIVE SumOver(_, _)
SumOver(S, t) ==
    IF S = {} THEN 0
    ELSE LET ts == CHOOSE x \in S : TRUE
             q == Quote(t, ts)
         IN  q.high + q.low + q.close + SumOver(S \ {ts}, t)

(* C1: after every non-empty page the cursor is the page's last timestamp
   plus one and has grown; it lies above every timestamp collected; the page
   repeats no timestamp collected before; and the page holds every upstream
   candle from the old cursor up to the new one. *)
C1_CursorAdvances ==
    [][(pc = "fetch" /\ ~failed' /\ batch' # <<>>) =>
        /\ since' = Last(batch').timestamp + 1
        /\ since' > since
        /\ \A ts \in Stamps(ohlcv') : ts < since'
        /\ Stamps(ohlcv) \cap Stamps(batch') = {}
        /\ Len(ohlcv') = Len(ohlcv) + Len(batch')
        /\ \A ts \in market[symbol] :
             (since <= ts /\ ts < since') => ts \in Stamps(batch')]_vars

C1_Witness ==
    /\ pc = "fetch"
    /\ requests >= 2
    /\ batch # <<>>
    /\ Len(ohlcv) > Len(batch)

(* C2: the pagination loop ends; it is left for the filter exactly when the
   answer is empty or the page's last candle lies after now_ms; and a call
   issues at most one request more than the upstream holds candles. *)
C2_LoopTerminates ==
    /\ (pc = "fetch") ~> (pc # "fetch")
    /\ [](symbol \in Tokens => requests <= Cardinality(market[symbol]) + 1)
    /\ [][(pc = "fetch" /\ ~failed') =>
            ((pc' = "filter") <=>
                (batch' = <<>> \/ Last(batch').timestamp > now_ms))]_vars

C2_Witness ==
    /\ pc = "filter"
    /\ requests >= 3
    /\ Last(ohlcv).timestamp <= now_ms

(* C3: every page received is appended to ohlcv as it arrives; and when the
   loop has ended, ohlcv is strictly ascending by timestamp and holds every
   upstream candle of the symbol with a timestamp from the first cursor to
   now_ms, once. *)
C3_SeriesComplete ==
    /\ [][(pc = "fetch" /\ ~failed') => ohlcv' = ohlcv \o batch']_vars
    /\ [](pc \in {"filter", "returned"} =>
        /\ \A j, k \in 1..Len(ohlcv) :
             j < k => ohlcv[j].timestamp < ohlcv[k].timestamp
        /\ \A ts \in market[symbol] :
             (WindowStart <= ts /\ ts <= now_ms) =>
                Cardinality({k \in 1..Len(ohlcv) : ohlcv[k] = Quote(symbol, ts)}) = 1)

C3_Witness ==
    /\ pc = "filter"
    /\ requests >= 2
    /\ Len(ohlcv) > Len(batch)
    /\ \E ts \in market[symbol] : ts < WindowStart
    /\ \E ts \in market[symbol] : WindowStart <= ts /\ ts <= now_ms

(* C4: once a request has raised, the call is on its way out with the error:
   nothing was returned for the symbol, no outcome is recorded for it, and no
   further request is issued. *)
C4_FailurePropagates ==
    /\ [](failed =>
            /\ pc \in {"unwind", "crashed"}
            /\ ret = [twap |-> None, df |-> None]
            /\ Len(outcomes) = idx - 1)
    /\ [][failed => requests' = requests]_vars

C4_Witness ==
    /\ failed
    /\ pc = "unwind"
    /\ ohlcv # <<>>

(* C5: a call returns (None, None) exactly when no collected candle has a
   date on or after the cutoff; a mean is a fraction with a non-zero
   denominator; and a call that returns has not failed. *)
C5_NoDataOutcome ==
    pc = "returned" =>
        /\ (ret = [twap |-> None, df |-> None]) <=>
              (\A ts \in Stamps(ohlcv) : ts \div DayMs < cutoff)
        /\ (ret.twap = None) <=> (ret.df = None)
        /\ ret.twap # None => ret.twap[2] > 0
        /\ ~failed

C5_Witness ==
    /\ pc = "returned"
    /\ ohlcv # <<>>
    /\ ret = [twap |-> None, df |-> None]

Bar(ts, p, v) ==
    [timestamp |-> ts, open |-> p, high |-> p + 2, low |-> p - 1,
     close |-> p - 1, volume |-> v]

(* C7: a returned TWAP is the sum of high + low + close over the returned
   candles, taken as a set, divided by three times their number; the mean of
   one candle is (h + l + c) / 3, and the mean of three candles with the
   typical prices 10, 20, 30 is 20 in any order and for any volumes. *)
C7_MeanOfTypicalPrice ==
    /\ (pc = "returned" /\ ret.df # None) =>
        LET S == Stamps(ret.df)
        IN  /\ S = {ts \in Stamps(ohlcv) : ts \div DayMs >= cutoff}
            /\ Cardinality(S) = Len(ret.df)
            /\ ret.twap[2] > 0
            /\ ret.twap[1] * (3 * Cardinality(S)) = SumOver(S, symbol) * ret.twap[2]
    /\ \A k \in 1..Len(ohlcv) :
         LET m == Mean(<<ohlcv[k]>>)
         IN  m[1] * 3 = (ohlcv[k].high + ohlcv[k].low + ohlcv[k].close) * m[2]
    /\ \A v \in 1..3 :
         LET m1 == Mean(<<Bar(1, 10, 1), Bar(2, 20, v), Bar(3, 30, 2)>>)
             m2 == Mean(<<Bar(3, 30, 2), Bar(1, 10, 1), Bar(2, 20, v)>>)
         IN  m1[1] = 20 * m1[2] /\ m2[1] = 20 * m2[2]

C7_Witness ==
    /\ pc = "returned"
    /\ ret.df # None
    /\ Len(ret.df) >= 2
    /\ Len(ret.df) < Len(ohlcv)
    /\ \E j, k \in 1..Len(ret.df) : ret.df[j].volume # ret.df[k].volume

(* C8: while a symbol is being fetched it is the symbol at the loop's
   position, every earlier symbol has its outcome and no later one has; its
   first request starts from an empty list and the cursor now_ms minus the
   days; and its list holds candles of that symbol alone. *)
C8_OneSymbolAtATime ==
    pc = "fetch" =>
        /\ idx \in 1..Len(selected_tokens)
        /\ symbol = selected_tokens[idx]
        /\ Len(outcomes) = idx - 1
        /\ Len(results) + Len(warnings) = idx - 1
        /\ requests = 0 => (ohlcv = <<>> /\ since = WindowStart)
        /\ Range(ohlcv) \subseteq Candles(symbol)

C8_Witness ==
    /\ pc = "fetch"
    /\ idx = 2
    /\ Len(results) = 1
    /\ ohlcv # <<>>
    /\ market[selected_tokens[1]] \cap market[selected_tokens[2]] # {}

(* The tokens whose call ended with the outcome o, in selection order. *)
RECURSIVE TokensWith(_, _)
TokensWith(o, n) ==
    IF n = 0 THEN <<>>
    ELSE TokensWith(o, n - 1) \o
            (IF outcomes[n] = o THEN <<selected_tokens[n]>> ELSE <<>>)

(* C9: when main is done, every selected token has an outcome, the rows are
   the tokens with a TWAP, in selection order and each with a TWAP, the
   warnings are the tokens without data, and the table is shown exactly when
   there is a row; the table is not shown before; and a call that has just
   returned left a row with its TWAP, or without data a warning. *)
C9_SummaryRows ==
    /\ pc = "done" =>
        /\ Len(outcomes) = Len(selected_tokens)
        /\ [k \in 1..Len(results) |-> results[k].Symbol]
              = TokensWith("twap", Len(outcomes))
        /\ \A k \in 1..Len(results) : results[k].TWAP # None
        /\ warnings = TokensWith("none", Len(outcomes))
        /\ table <=> (\E k \in 1..Len(outcomes) : outcomes[k] = "twap")
    /\ pc # "done" => ~table
    /\ (pc = "for" /\ idx > 1) =>
        /\ outcomes[idx - 1] = (IF ret.twap = None THEN "none" ELSE "twap")
        /\ ret.twap # None =>
              Last(results) = [Symbol |-> symbol, TWAP |-> ret.twap]
        /\ ret.twap = None => Last(warnings) = symbol

C9_Witness ==
    /\ pc = "done"
    /\ outcomes = <<"none", "twap">>
    /\ table

(* C10: once a request has raised, main goes no further: the loop position,
   the symbol, the rows and the warnings stay as they are, the call does not
   return to main, and the table is never shown. *)
C10_FailureEndsMain ==
    [][failed =>
        /\ idx' = idx
        /\ symbol' = symbol
        /\ results' = results
        /\ warnings' = warnings
        /\ outcomes' = outcomes
        /\ pc' \in {"unwind", "crashed"}
        /\ ~table']_vars

C10_Witness ==
    /\ failed
    /\ pc = "crashed"
    /\ idx = 1
    /\ Len(selected_tokens) = 2
    /\ market[selected_tokens[2]] # {}

====
